---- MODULE Spec2Model ----
(***************************************************************************)
(* Kitchen expense tracker: the express/mongoose API of                    *)
(* src/backend/server.js and the browser client of src/script.js.          *)
(*                                                                         *)
(* The document store is modelled by what mongoose and MongoDB do with the *)
(* calls the handlers make: every store operation (findById, findOne,      *)
(* find, save, deleteMany, findOneAndDelete) is one atomic step, and the   *)
(* JavaScript that runs between two awaits is part of the step that        *)
(* precedes it, since it touches only the request's own data.  The store   *)
(* is assumed to answer every operation: an outage is not modelled.        *)
(***************************************************************************)
EXTENDS Integers, Sequences, FiniteSets, TLC

(***************************************************************************)
(* Bounds of the model.                                                    *)
(***************************************************************************)
MaxBudget == 11
MaxExpenses == 2
MaxClock == 1
MaxCalls == 2

ReqIds == {"r1", "r2"}

\* The connection used when requests are sent one after the other.
Serial == {"r1"}

(***************************************************************************)
(* JavaScript values.  A string is the sequence of its characters.         *)
(***************************************************************************)
Undef == [t |-> "undefined"]
Null == [t |-> "null"]
NaN == [t |-> "nan"]
Num(n) == [t |-> "num", n |-> n]
Str(s) == [t |-> "str", s |-> s]

DigitVal == [c \in {"0", "1", "2", "3", "4", "5", "6", "7", "8", "9"} |->
               CASE c = "0" -> 0 [] c = "1" -> 1 [] c = "2" -> 2 [] c = "3" -> 3
                 [] c = "4" -> 4 [] c = "5" -> 5 [] c = "6" -> 6 [] c = "7" -> 7
                 [] c = "8" -> 8 [] c = "9" -> 9]

DigitChar == <<"0", "1", "2", "3", "4", "5", "6", "7", "8", "9">>

IsDigits(s) == Len(s) > 0 /\ \A i \in 1..Len(s) : s[i] \in DOMAIN DigitVal

RECURSIVE DigitsValue(_)
DigitsValue(s) ==
  IF s = <<>> THEN 0
  ELSE 10 * DigitsValue(SubSeq(s, 1, Len(s) - 1)) + DigitVal[s[Len(s)]]

RECURSIVE NatToString(_)
NatToString(n) ==
  IF n < 10 THEN <<DigitChar[n + 1]>>
  ELSE NatToString(n \div 10) \o <<DigitChar[(n % 10) + 1]>>

\* Number.prototype.toString for the integers of the model.
NumberToString(n) == IF n < 0 THEN <<"-">> \o NatToString(-n) ELSE NatToString(n)

\* ToString of a value, as the + operator and parseFloat apply it.
ToStringJS(v) ==
  CASE v.t = "str" -> v.s
    [] v.t = "num" -> NumberToString(v.n)
    [] v.t = "null" -> <<"n", "u", "l", "l">>
    [] v.t = "nan" -> <<"N", "a", "N">>
    [] OTHER -> <<"u", "n", "d", "e", "f", "i", "n", "e", "d">>

\* Number(string): the empty string is 0, a decimal numeral its value,
\* anything else NaN.
StringToNumber(s) ==
  IF s = <<>> THEN Num(0)
  ELSE IF IsDigits(s) THEN Num(DigitsValue(s))
  ELSE IF s[1] = "-" /\ IsDigits(Tail(s)) THEN Num(-DigitsValue(Tail(s)))
  ELSE NaN

\* ToNumber: undefined is NaN, null is 0.
ToNumber(v) ==
  CASE v.t = "num" -> v
    [] v.t = "null" -> Num(0)
    [] v.t = "str" -> StringToNumber(v.s)
    [] OTHER -> NaN

isNaN(v) == ToNumber(v) = NaN

\* a < b for a number b: ToNumber on both sides, false when either is NaN.
LessThan(a, b) ==
  /\ ToNumber(a) # NaN
  /\ ToNumber(b) # NaN
  /\ ToNumber(a).n < ToNumber(b).n

\* a <= b: false when either side is NaN.
LessOrEqual(a, b) ==
  /\ ToNumber(a) # NaN
  /\ ToNumber(b) # NaN
  /\ ToNumber(a).n <= ToNumber(b).n

\* a + b: string concatenation as soon as one side is a string.
Plus(a, b) ==
  IF a.t = "str" \/ b.t = "str" THEN Str(ToStringJS(a) \o ToStringJS(b))
  ELSE IF ToNumber(a) = NaN \/ ToNumber(b) = NaN THEN NaN
  ELSE Num(ToNumber(a).n + ToNumber(b).n)

\* !v
Falsy(v) ==
  \/ v.t \in {"undefined", "null", "nan"}
  \/ v.t = "num" /\ v.n = 0
  \/ v.t = "str" /\ v.s = <<>>

\* The longest prefix of s made of digits.
RECURSIVE DigitPrefix(_)
DigitPrefix(s) ==
  IF s = <<>> \/ s[1] \notin DOMAIN DigitVal THEN <<>>
  ELSE <<s[1]>> \o DigitPrefix(Tail(s))

\* parseFloat: the numeral the text of v starts with, NaN when there is none.
parseFloat(v) ==
  LET s == ToStringJS(v)
      neg == s # <<>> /\ s[1] = "-"
      d == DigitPrefix(IF neg THEN Tail(s) ELSE s)
  IN IF d = <<>> THEN NaN
     ELSE Num(IF neg THEN -DigitsValue(d) ELSE DigitsValue(d))


(***************************************************************************)
(* String helpers of the schemas and of the sort.                          *)
(***************************************************************************)
\* String.prototype.trim (schema option trim: true).
RECURSIVE TrimLeft(_)
TrimLeft(s) == IF s # <<>> /\ s[1] = " " THEN TrimLeft(Tail(s)) ELSE s

RECURSIVE TrimRight(_)
TrimRight(s) ==
  IF s # <<>> /\ s[Len(s)] = " " THEN TrimRight(SubSeq(s, 1, Len(s) - 1)) ELSE s

Trim(s) == TrimRight(TrimLeft(s))

\* String.prototype.toLowerCase (schema option lowercase: true).
toLowerCase(s) ==
  [i \in 1..Len(s) |-> CASE s[i] = "A" -> "a" [] s[i] = "B" -> "b" [] OTHER -> s[i]]

\* Code units of the characters dates are written with.
CharCode(c) == IF c = "-" THEN 45 ELSE 48 + DigitVal[c]

\* a < b on strings: the order MongoDB sorts a String field by.
RECURSIVE StrLess(_, _)
StrLess(a, b) ==
  IF b = <<>> THEN FALSE
  ELSE IF a = <<>> THEN TRUE
  ELSE IF a[1] = b[1] THEN StrLess(Tail(a), Tail(b))
  ELSE CharCode(a[1]) < CharCode(b[1])

\* The value mongoose stores for a Number path: null and undefined stay,
\* "" becomes null, a string its number; "CastError" when that is NaN.
CastNumber(v) ==
  CASE v.t \in {"undefined", "null"} -> Null
    [] v.t = "num" -> v
    [] v.t = "str" /\ v.s = <<>> -> Null
    [] v.t = "str" /\ StringToNumber(v.s) # NaN -> StringToNumber(v.s)
    [] OTHER -> [t |-> "CastError"]

(***************************************************************************)
(* State.                                                                  *)
(***************************************************************************)
VARIABLES
  User,        \* the users collection, in insertion order
  Expense,     \* the expenses collection, in insertion order
  nextEid,     \* the next ObjectId of an Expense document
  now,         \* Date.now()
  pc,          \* per connection: the store operation its request awaits
  req,         \* per connection: the request (route, token, body)
  reqUser,     \* per connection: req.user, the document authMiddleware loaded
  pending,     \* per connection: the document or result the handler holds
  sent,        \* the response the last step sent, if it sent one
  totalBudget, \* client: the mirror of the budget
  expenses,    \* client: the mirror of the expense list
  call,        \* client: the API calls in flight, oldest first
  localStorage,\* client: the token and the user the browser keeps
  location,    \* client: window.location.href
  readyState,  \* client: document.readyState
  document     \* client: the summary elements and the rows of the table

serverVars == <<User, Expense, nextEid, now, pc, req, reqUser, pending, sent>>
clientVars == <<totalBudget, expenses, call, localStorage, location, readyState, document>>
vars == <<serverVars, clientVars>>

None == [t |-> "none"]

\* No document has this id: findById answers null for it.
NoUserId == 0

Find(coll, id) == CHOOSE d \in {coll[i] : i \in 1..Len(coll)} : d._id = id

Has(coll, id) == \E i \in 1..Len(coll) : coll[i]._id = id

UserIds == {User[i]._id : i \in 1..Len(User)}

\* The expenses of one account, in insertion order.
Owned(uid) == LET Mine(e) == e.userId = uid IN SelectSeq(Expense, Mine)

\* jwt.sign({ userId }, secret, { expiresIn: '7d' })
Sign(uid) == [kind |-> "valid", userId |-> uid]

\* The Authorization headers a request may carry: none, a token that does not
\* verify, and tokens the server signed for a stored account or for an id the
\* store does not hold, still valid or past their expiry.
Tokens ==
  {[kind |-> "none", userId |-> NoUserId], [kind |-> "malformed", userId |-> NoUserId]}
    \cup {[kind |-> k, userId |-> u] : k \in {"valid", "expired"}, u \in UserIds \cup {NoUserId}}

\* The public view of an account sent in responses.
PublicUser(u) ==
  [id |-> u._id, username |-> u.username, email |-> u.email, totalBudget |-> u.totalBudget]

Request(rt, tok, body) == [route |-> rt, token |-> tok, body |-> body]

ErrorBody(msg) == [error |-> msg]

Init ==
  /\ User = <<>>
  /\ Expense = <<>>
  /\ nextEid = 1
  /\ now = 0
  /\ pc = [r \in ReqIds |-> "idle"]
  /\ req = [r \in ReqIds |-> None]
  /\ reqUser = [r \in ReqIds |-> None]
  /\ pending = [r \in ReqIds |-> None]
  /\ sent = None
  /\ totalBudget = Num(0)
  /\ expenses = <<>>
  /\ call = <<>>
  /\ localStorage = [token |-> Sign(1), user |-> Null]
  /\ location = "index.html"
  /\ readyState = "loading"
  /\ document = [budgetEl |-> Num(0), spentEl |-> Num(0),
                 balanceEl |-> [value |-> Num(0), negative |-> FALSE],
                 tbody |-> <<>>]

\* A free connection: no request in flight on it.
Free(r) == pc[r] = "idle"

\* res.status(status).json(body) before the handler awaited anything.
Respond(rq, status, json) ==
  /\ sent' = [req |-> rq, status |-> status, json |-> json]
  /\ UNCHANGED <<pc, req, reqUser, pending>>

\* The handler awaits the store operation op, holding doc as req.user and p.
Await(r, rq, op, doc, p) ==
  /\ pc' = [pc EXCEPT ![r] = op]
  /\ req' = [req EXCEPT ![r] = rq]
  /\ reqUser' = [reqUser EXCEPT ![r] = doc]
  /\ pending' = [pending EXCEPT ![r] = p]
  /\ sent' = None

\* The awaited operation returned and the handler answers.
Finish(r, status, json) ==
  /\ sent' = [req |-> req[r], status |-> status, json |-> json]
  /\ pc' = [pc EXCEPT ![r] = "idle"]
  /\ req' = [req EXCEPT ![r] = None]
  /\ reqUser' = [reqUser EXCEPT ![r] = None]
  /\ pending' = [pending EXCEPT ![r] = None]

\* Date.now() advances.
Tick ==
  /\ now < MaxClock
  /\ now' = now + 1
  /\ sent' = None
  /\ UNCHANGED <<User, Expense, nextEid, pc, req, reqUser, pending>>
  /\ UNCHANGED clientVars

(***************************************************************************)
(* authMiddleware: the token is taken from the header, verified, and the   *)
(* account it names is loaded without its password.                        *)
(***************************************************************************)
\* authMiddleware with a verification that does not look at the expiry.
authMiddlewareIgnoringExpiry(tok) ==
  IF tok.kind = "none"
    THEN [ok |-> FALSE, error |-> "Access denied. No token provided."]
  ELSE IF tok.kind \notin {"valid", "expired"}
    THEN [ok |-> FALSE, error |-> "Invalid or expired token."]
  ELSE IF ~Has(User, tok.userId)
    THEN [ok |-> FALSE, error |-> "Invalid token. User not found."]
  ELSE [ok |-> TRUE,
        user |-> [_id |-> tok.userId,
                  username |-> Find(User, tok.userId).username,
                  email |-> Find(User, tok.userId).email,
                  totalBudget |-> Find(User, tok.userId).totalBudget,
                  modified |-> FALSE]]

authMiddleware(tok) ==
  IF tok.kind = "none"
    THEN [ok |-> FALSE, error |-> "Access denied. No token provided."]
  ELSE IF tok.kind # "valid"
    THEN [ok |-> FALSE, error |-> "Invalid or expired token."]
  ELSE IF ~Has(User, tok.userId)
    THEN [ok |-> FALSE, error |-> "Invalid token. User not found."]
  ELSE [ok |-> TRUE,
        user |-> [_id |-> tok.userId,
                  username |-> Find(User, tok.userId).username,
                  email |-> Find(User, tok.userId).email,
                  totalBudget |-> Find(User, tok.userId).totalBudget,
                  modified |-> FALSE]]

\* The request is refused by authMiddleware: 401 and nothing else.
Unauthorized(rq) ==
  /\ Respond(rq, 401, ErrorBody(authMiddleware(rq.token).error))
  /\ UNCHANGED <<User, Expense, nextEid, now>>

\* doc.totalBudget = v: the setter casts v; the path is modified when the
\* value differs from the one it held.
SetTotalBudget(doc, v) ==
  [doc EXCEPT !.totalBudget = CastNumber(v),
              !.modified = doc.modified \/ CastNumber(v) # doc.totalBudget]

\* doc.save() of a loaded account: $set of the modified path, by _id.
SaveUser(doc) ==
  IF doc.modified
    THEN [i \in 1..Len(User) |->
            IF User[i]._id = doc._id
              THEN [User[i] EXCEPT !.totalBudget = doc.totalBudget]
              ELSE User[i]]
    ELSE User

(***************************************************************************)
(* POST /api/auth/signup                                                   *)
(***************************************************************************)
\* bcrypt.hash(password, 12), the pre-save hook.
Hash(password) == [bcrypt |-> password]

\* User.findOne({ $or: [{ email }, { username }] }): the filter is cast by the
\* schema (trim, lowercase); the first match in the collection, or None.
FindExisting(username, email) ==
  LET Match(u) == u.email = toLowerCase(Trim(email.s)) \/ u.username = Trim(username.s)
      found == SelectSeq(User, Match)
  IN IF found = <<>> THEN None ELSE found[1]

\* The unique indexes on username and email refuse the insert of doc.
DuplicateKey(doc) ==
  \E i \in 1..Len(User) : User[i].username = doc.username \/ User[i].email = doc.email

\* A new ObjectId: an id no stored document and no document in the making has.
NewUserId ==
  CHOOSE id \in 1..(Len(User) + Cardinality(ReqIds) + 1) :
    /\ ~Has(User, id)
    /\ \A r \in ReqIds : pc[r] = "save" /\ req[r].route = "signup" => pending[r]._id # id
    /\ \A other \in 1..(id - 1) :
         \/ Has(User, other)
         \/ \E r \in ReqIds : pc[r] = "save" /\ req[r].route = "signup" /\ pending[r]._id = other

\* new User({ username, email, password })
NewUser(body) ==
  [_id |-> NewUserId,
   username |-> Trim(body.username.s),
   email |-> toLowerCase(Trim(body.email.s)),
   password |-> body.password.s,
   totalBudget |-> Num(0)]

\* The handler up to the store's part of user.save(): the field checks, the
\* existence check, and the validation save() runs before the insert.
Signup(r, body) ==
  LET rq == Request("signup", None, body)
  IN /\ Free(r)
     /\ UNCHANGED <<User, Expense, nextEid, now>>
     /\ UNCHANGED clientVars
     /\ IF Falsy(body.username) \/ Falsy(body.email) \/ Falsy(body.password)
          THEN Respond(rq, 400, ErrorBody("All fields are required."))
        ELSE IF Len(body.username.s) < 3
          THEN Respond(rq, 400, ErrorBody("Username must be at least 3 characters."))
        ELSE IF Len(body.password.s) < 6
          THEN Respond(rq, 400, ErrorBody("Password must be at least 6 characters."))
        ELSE IF FindExisting(body.username, body.email) # None
          THEN Respond(rq, 400,
                 ErrorBody(IF FindExisting(body.username, body.email).email = body.email.s
                             THEN "Email already registered."
                             ELSE "Username already taken."))
        ELSE IF Len(Trim(body.username.s)) < 3
          THEN Respond(rq, 500, ErrorBody("Server error. Please try again."))
        ELSE Await(r, rq, "save", None, NewUser(body))

\* user.save() reaches the store: the insert, refused on a duplicate key.
SignupSave(r) ==
  /\ pc[r] = "save"
  /\ req[r].route = "signup"
  /\ UNCHANGED <<Expense, nextEid, now>>
  /\ UNCHANGED clientVars
  /\ IF DuplicateKey(pending[r])
       THEN /\ Finish(r, 500, ErrorBody("Server error. Please try again."))
            /\ UNCHANGED User
       ELSE /\ User' = Append(User, [pending[r] EXCEPT !.password = Hash(pending[r].password)])
            /\ Finish(r, 201, [token |-> Sign(pending[r]._id),
                               user |-> PublicUser(pending[r])])

(***************************************************************************)
(* GET /api/auth/me                                                        *)
(***************************************************************************)
Me(r, tok) ==
  LET rq == Request("me", tok, None)
  IN /\ Free(r)
     /\ UNCHANGED clientVars
     /\ IF ~authMiddleware(tok).ok THEN Unauthorized(rq)
        ELSE /\ Respond(rq, 200, [user |-> PublicUser(authMiddleware(tok).user)])
             /\ UNCHANGED <<User, Expense, nextEid, now>>

(***************************************************************************)
(* PUT /api/budget/set and PUT /api/budget/add                             *)
(***************************************************************************)
\* The handler assigned v to req.user.totalBudget and awaits save(), which
\* rejects before it reaches the store when the setter could not cast v.
AssignAndSave(r, rq, v) ==
  LET doc == SetTotalBudget(authMiddleware(rq.token).user, v)
  IN /\ UNCHANGED <<User, Expense, nextEid, now>>
     /\ IF doc.totalBudget.t = "CastError"
          THEN Respond(rq, 500, ErrorBody("Server error."))
          ELSE /\ doc.totalBudget.t = "num" => doc.totalBudget.n <= MaxBudget
               /\ Await(r, rq, "save", doc, None)

\* amount === undefined || isNaN(amount) || amount < 0
InvalidBudget(amount) == amount = Undef \/ isNaN(amount) \/ LessThan(amount, Num(0))

\* amount === undefined || isNaN(amount) || amount <= 0
InvalidAddition(amount) == amount = Undef \/ isNaN(amount) \/ LessOrEqual(amount, Num(0))

BudgetSet(r, tok, body) ==
  LET rq == Request("budget/set", tok, body)
  IN /\ Free(r)
     /\ UNCHANGED clientVars
     /\ IF ~authMiddleware(tok).ok THEN Unauthorized(rq)
        ELSE IF InvalidBudget(body.amount)
          THEN /\ Respond(rq, 400, ErrorBody("Please provide a valid budget amount."))
               /\ UNCHANGED <<User, Expense, nextEid, now>>
        ELSE AssignAndSave(r, rq, body.amount)

BudgetAdd(r, tok, body) ==
  LET rq == Request("budget/add", tok, body)
  IN /\ Free(r)
     /\ UNCHANGED clientVars
     /\ IF ~authMiddleware(tok).ok THEN Unauthorized(rq)
        ELSE IF InvalidAddition(body.amount)
          THEN /\ Respond(rq, 400, ErrorBody("Please provide a valid amount to add."))
               /\ UNCHANGED <<User, Expense, nextEid, now>>
        ELSE AssignAndSave(r, rq, Plus(authMiddleware(tok).user.totalBudget, body.amount))

\* await req.user.save() of the budget routes, and the answer.
BudgetSave(r) ==
  /\ pc[r] = "save"
  /\ req[r].route \in {"budget/set", "budget/add"}
  /\ User' = SaveUser(reqUser[r])
  /\ Finish(r, 200, [message |-> IF req[r].route = "budget/set" THEN "Budget updated."
                                  ELSE "Money added to budget.",
                     totalBudget |-> reqUser[r].totalBudget])
  /\ UNCHANGED <<Expense, nextEid, now>>
  /\ UNCHANGED clientVars

(***************************************************************************)
(* GET /api/expenses                                                       *)
(***************************************************************************)
\* A sort on createdAt alone.
SortsBeforeByCreation(a, b) == a.createdAt < b.createdAt

\* a sorts before b under .sort({ date: 1, createdAt: 1 }).
SortsBefore(a, b) ==
  \/ StrLess(a.date, b.date)
  \/ a.date = b.date /\ a.createdAt < b.createdAt

\* The sequences that hold the documents of s once each.
Orderings(s) ==
  {q \in [1..Len(s) -> {s[i] : i \in 1..Len(s)}] :
     \A i \in 1..Len(s) : \E j \in 1..Len(s) : q[j] = s[i]}

\* Expense.find({ userId }).sort({ date: 1, createdAt: 1 }): the documents of
\* the account in sort order.  The store leaves the order of documents with
\* equal keys open; the order the collection holds them in is one of them.
FindExpenses(uid) ==
  {q \in Orderings(Owned(uid)) :
     \A i, j \in 1..Len(q) : i < j => ~SortsBefore(q[j], q[i])}

ExpenseList(r, tok) ==
  LET rq == Request("expenses/list", tok, None)
  IN /\ Free(r)
     /\ UNCHANGED clientVars
     /\ IF ~authMiddleware(tok).ok THEN Unauthorized(rq)
        ELSE /\ Await(r, rq, "find", authMiddleware(tok).user, None)
             /\ UNCHANGED <<User, Expense, nextEid, now>>

ExpenseFind(r) ==
  /\ pc[r] = "find"
  /\ \E q \in FindExpenses(reqUser[r]._id) : Finish(r, 200, q)
  /\ UNCHANGED <<User, Expense, nextEid, now>>
  /\ UNCHANGED clientVars

(***************************************************************************)
(* POST /api/expenses                                                      *)
(***************************************************************************)
\* new Expense({ userId, date, item, amount: parseFloat(amount), quantity, mode })
NewExpense(uid, body) ==
  [_id |-> nextEid,
   userId |-> uid,
   date |-> body.date.s,
   item |-> body.item.s,
   amount |-> CastNumber(parseFloat(body.amount)),
   quantity |-> body.quantity.s,
   mode |-> body.mode.s,
   createdAt |-> now]

\* !date || !item || !amount || !quantity || !mode
MissingField(body) ==
  Falsy(body.date) \/ Falsy(body.item) \/ Falsy(body.amount)
    \/ Falsy(body.quantity) \/ Falsy(body.mode)

ExpenseAdd(r, tok, body) ==
  LET rq == Request("expenses/add", tok, body)
  IN /\ Free(r)
     /\ UNCHANGED clientVars
     /\ IF ~authMiddleware(tok).ok THEN Unauthorized(rq)
        ELSE IF MissingField(body)
          THEN /\ Respond(rq, 400, ErrorBody("All fields are required."))
               /\ UNCHANGED <<User, Expense, nextEid, now>>
        ELSE IF CastNumber(parseFloat(body.amount)).t = "CastError"
          THEN /\ Respond(rq, 500, ErrorBody("Server error."))
               /\ UNCHANGED <<User, Expense, nextEid, now>>
        ELSE /\ nextEid <= MaxExpenses
             /\ Await(r, rq, "insert", authMiddleware(tok).user,
                      NewExpense(authMiddleware(tok).user._id, body))
             /\ nextEid' = nextEid + 1
             /\ UNCHANGED <<User, Expense, now>>

\* await expense.save()
ExpenseSave(r) ==
  /\ pc[r] = "insert"
  /\ Expense' = Append(Expense, pending[r])
  /\ Finish(r, 201, pending[r])
  /\ UNCHANGED <<User, nextEid, now>>
  /\ UNCHANGED clientVars

(***************************************************************************)
(* DELETE /api/expenses/:id                                                *)
(***************************************************************************)
ExpenseDelete(r, tok, id) ==
  LET rq == Request("expenses/delete", tok, [id |-> id])
  IN /\ Free(r)
     /\ UNCHANGED clientVars
     /\ IF ~authMiddleware(tok).ok THEN Unauthorized(rq)
        ELSE /\ Await(r, rq, "findOneAndDelete", authMiddleware(tok).user, None)
             /\ UNCHANGED <<User, Expense, nextEid, now>>

\* A filter on the id alone.
DeleteFilterByIdOnly(r, e) == e._id = req[r].body.id

\* The filter { _id: req.params.id, userId: req.user._id } matches e.
DeleteFilter(r, e) == e._id = req[r].body.id /\ e.userId = reqUser[r]._id

\* Expense.findOneAndDelete(filter): the matching document is removed and
\* returned, or null is returned.
ExpenseFindOneAndDelete(r) ==
  LET Match(e) == DeleteFilter(r, e)
      Other(e) == ~DeleteFilter(r, e)
  IN /\ pc[r] = "findOneAndDelete"
     /\ Expense' = SelectSeq(Expense, Other)
     /\ IF SelectSeq(Expense, Match) = <<>>
          THEN Finish(r, 404, ErrorBody("Expense not found."))
          ELSE Finish(r, 200, [message |-> "Expense deleted."])
     /\ UNCHANGED <<User, nextEid, now>>
     /\ UNCHANGED clientVars

(***************************************************************************)
(* DELETE /api/expenses                                                    *)
(***************************************************************************)
ExpenseClear(r, tok) ==
  LET rq == Request("expenses/clear", tok, None)
  IN /\ Free(r)
     /\ UNCHANGED clientVars
     /\ IF ~authMiddleware(tok).ok THEN Unauthorized(rq)
        ELSE /\ Await(r, rq, "deleteMany", authMiddleware(tok).user, None)
             /\ UNCHANGED <<User, Expense, nextEid, now>>

\* await Expense.deleteMany({ userId }); then req.user.totalBudget = 0.
ExpenseDeleteMany(r) ==
  LET Other(e) == e.userId # reqUser[r]._id
  IN /\ pc[r] = "deleteMany"
     /\ Expense' = SelectSeq(Expense, Other)
     /\ pending' = [pending EXCEPT ![r] = [deletedCount |-> Len(Owned(reqUser[r]._id))]]
     /\ reqUser' = [reqUser EXCEPT ![r] = SetTotalBudget(reqUser[r], Num(0))]
     /\ pc' = [pc EXCEPT ![r] = "save"]
     /\ sent' = None
     /\ UNCHANGED <<User, nextEid, now, req>>
     /\ UNCHANGED clientVars

\* await req.user.save() of the clear route, and the answer.
ExpenseClearSave(r) ==
  /\ pc[r] = "save"
  /\ req[r].route = "expenses/clear"
  /\ User' = SaveUser(reqUser[r])
  /\ Finish(r, 200, [message |-> "All data cleared."])
  /\ UNCHANGED <<Expense, nextEid, now>>
  /\ UNCHANGED clientVars


(***************************************************************************)
(* Request headers and bodies.                                             *)
(***************************************************************************)
Bob == <<"b", "o", "b">>
Amy == <<"a", "m", "y">>
Secret == <<"s", "e", "c", "r", "e", "t">>
Jan02 == <<"2", "0", "2", "4", "-", "0", "1", "-", "0", "2">>
Jan10 == <<"2", "0", "2", "4", "-", "0", "1", "-", "1", "0">>

\* Tokens the server signed for a stored account and that have not expired.
ValidTokens == {Sign(u) : u \in UserIds}

Usernames ==
  {Undef, Str(<<"a", "l">>), Str(<<"a", "l", " ">>), Str(Bob), Str(Bob \o <<" ">>), Str(Amy)}

Emails == {Undef, Str(<<"a", "@", "x">>), Str(<<"A", "@", "x">>), Str(<<"b", "@", "x">>)}

Passwords == {Undef, Str(<<"s", "h", "o", "r", "t">>), Str(Secret)}

SignupBodies == [username : Usernames, email : Emails, password : Passwords]

\* Two registrations that do not collide.
Accounts ==
  {[username |-> Str(Bob), email |-> Str(<<"a", "@", "x">>), password |-> Str(Secret)],
   [username |-> Str(Amy), email |-> Str(<<"b", "@", "x">>), password |-> Str(Secret)]}

BudgetBodies ==
  [amount : {Undef, Null, Num(-1), Num(0), Num(5), Str(<<"a", "b", "c">>), Str(<<"1">>)}]

FullExpense(date, amount) ==
  [date |-> Str(date), item |-> Str(<<"T", "e", "a">>), amount |-> amount,
   quantity |-> Str(<<"1">>), mode |-> Str(<<"C", "a", "s", "h">>)]

\* Bodies with every field, and bodies that lack one or hold no amount.
ExpenseBodies ==
  {FullExpense(Jan02, Num(2)), FullExpense(Jan10, Num(2)), FullExpense(Jan02, Num(-1))}
    \cup {FullExpense(Jan02, a) : a \in {Num(0), Str(<<"a", "b", "c">>)}}
    \cup {[FullExpense(Jan02, Num(2)) EXCEPT !.item = Undef]}

(***************************************************************************)
(* Registration alone, with colliding names and emails.                    *)
(***************************************************************************)
NextSignup ==
  \/ \E r \in ReqIds, b \in SignupBodies : Signup(r, b)
  \/ \E r \in ReqIds : SignupSave(r)

SpecSignup == Init /\ [][NextSignup]_vars

(***************************************************************************)
(* Two accounts and their budgets.                                         *)
(***************************************************************************)
NextBudget ==
  \/ \E r \in Serial, b \in Accounts : Signup(r, b)
  \/ \E r \in Serial : SignupSave(r)
  \/ \E r \in Serial, tok \in ValidTokens : Me(r, tok)
  \/ \E r \in Serial, tok \in ValidTokens, b \in BudgetBodies : BudgetSet(r, tok, b)
  \/ \E r \in Serial, tok \in ValidTokens, b \in BudgetBodies : BudgetAdd(r, tok, b)
  \/ \E r \in Serial : BudgetSave(r)

SpecBudget == Init /\ [][NextBudget]_vars

(***************************************************************************)
(* Two accounts and their ledgers.                                         *)
(***************************************************************************)
NextLedger ==
  \/ Tick
  \/ \E r \in Serial, b \in Accounts : Signup(r, b)
  \/ \E r \in Serial : SignupSave(r)
  \/ \E r \in Serial, tok \in ValidTokens : ExpenseList(r, tok)
  \/ \E r \in Serial : ExpenseFind(r)
  \/ \E r \in Serial, tok \in ValidTokens, b \in ExpenseBodies : ExpenseAdd(r, tok, b)
  \/ \E r \in Serial : ExpenseSave(r)
  \/ \E r \in Serial, tok \in ValidTokens, id \in 1..MaxExpenses : ExpenseDelete(r, tok, id)
  \/ \E r \in Serial : ExpenseFindOneAndDelete(r)

SpecLedger == Init /\ [][NextLedger]_vars


(***************************************************************************)
(* The whole API, requests one after the other, with every kind of token.  *)
(***************************************************************************)
Next ==
  \/ \E r \in Serial, b \in Accounts : Signup(r, b)
  \/ \E r \in Serial : SignupSave(r)
  \/ \E r \in Serial, tok \in Tokens : Me(r, tok)
  \/ \E r \in Serial, tok \in Tokens, b \in {[amount |-> Num(5)]} : BudgetSet(r, tok, b)
  \/ \E r \in Serial, tok \in Tokens, b \in {[amount |-> Num(5)]} : BudgetAdd(r, tok, b)
  \/ \E r \in Serial : BudgetSave(r)
  \/ \E r \in Serial, tok \in Tokens : ExpenseList(r, tok)
  \/ \E r \in Serial : ExpenseFind(r)
  \/ \E r \in Serial, tok \in Tokens, b \in {FullExpense(Jan02, Num(2))} : ExpenseAdd(r, tok, b)
  \/ \E r \in Serial : ExpenseSave(r)
  \/ \E r \in Serial, tok \in Tokens, id \in 1..MaxExpenses : ExpenseDelete(r, tok, id)
  \/ \E r \in Serial : ExpenseFindOneAndDelete(r)
  \/ \E r \in Serial, tok \in Tokens : ExpenseClear(r, tok)
  \/ \E r \in Serial : ExpenseDeleteMany(r)
  \/ \E r \in Serial : ExpenseClearSave(r)

Spec == Init /\ [][Next]_vars

(***************************************************************************)
(* One account whose requests overlap.                                     *)
(***************************************************************************)
NextOverlap ==
  \/ \E r \in ReqIds, b \in {CHOOSE a \in Accounts : a.username = Str(Bob)} : Signup(r, b)
  \/ \E r \in ReqIds : SignupSave(r)
  \/ \E r \in ReqIds, tok \in ValidTokens : Me(r, tok)
  \/ \E r \in ReqIds, tok \in ValidTokens, b \in {[amount |-> Num(5)]} : BudgetSet(r, tok, b)
  \/ \E r \in ReqIds, tok \in ValidTokens, b \in {[amount |-> Num(1)], [amount |-> Num(5)]} :
        BudgetAdd(r, tok, b)
  \/ \E r \in ReqIds : BudgetSave(r)
  \/ \E r \in ReqIds, tok \in ValidTokens : ExpenseList(r, tok)
  \/ \E r \in ReqIds : ExpenseFind(r)
  \/ \E r \in ReqIds, tok \in ValidTokens, b \in {FullExpense(Jan02, Num(2))} :
        ExpenseAdd(r, tok, b)
  \/ \E r \in ReqIds : ExpenseSave(r)
  \/ \E r \in ReqIds, tok \in ValidTokens : ExpenseClear(r, tok)
  \/ \E r \in ReqIds : ExpenseDeleteMany(r)
  \/ \E r \in ReqIds : ExpenseClearSave(r)

SpecOverlap == Init /\ [][NextOverlap]_vars


(***************************************************************************)
(* Properties.                                                             *)
(***************************************************************************)
Budget(uid) == Find(User, uid).totalBudget

\* C1: clear is atomic for its account: in no state has a clear request
\* removed the account's expenses while the stored budget total is still the
\* value it had before the clear and not 0.
C1_ClearIsAtomic ==
  \A r \in ReqIds :
    (/\ pc[r] = "save"
     /\ req[r].route = "expenses/clear"
     /\ pending[r].deletedCount > 0
     /\ Owned(reqUser[r]._id) = <<>>)
      => Budget(reqUser[r]._id) = Num(0)

\* What a registration asks for, as the schema stores it.
AsksFor(body, u) ==
  \/ u.username = Trim(body.username.s)
  \/ u.email = toLowerCase(Trim(body.email.s))

\* The body passes the field checks of the registration handler.
WellFormedSignup(body) ==
  /\ body.username.t = "str" /\ Len(Trim(body.username.s)) >= 3
  /\ body.email.t = "str" /\ body.email.s # <<>>
  /\ body.password.t = "str" /\ Len(body.password.s) >= 6

\* C2: a registration whose name or email a stored account (other than the
\* one it created) holds is answered with the conflict response (400), and no
\* two stored accounts share a name or an email.
C2_DuplicateIsConflict ==
  /\ (/\ sent # None
      /\ sent.req.route = "signup"
      /\ WellFormedSignup(sent.req.body)
      /\ \E i \in 1..Len(User) :
           /\ AsksFor(sent.req.body, User[i])
           /\ ~(sent.status = 201 /\ sent.json.user.id = User[i]._id))
       => (sent.status = 400
           /\ sent.json.error \in {"Email already registered.", "Username already taken."})
  /\ \A i, j \in 1..Len(User) :
       i # j => User[i].username # User[j].username /\ User[i].email # User[j].email

\* The expense the delete request of r names exists and is another account's.
ForeignTarget(r) ==
  \E i \in 1..Len(Expense) :
    Expense[i]._id = req[r].body.id /\ Expense[i].userId # reqUser[r]._id

\* C3: a delete of an expense id that another account owns is answered 404
\* and changes no ledger; the expense stays in every list of its owner.
C3_ForeignDeleteNotFound ==
  [][\A r \in ReqIds :
       (pc[r] = "findOneAndDelete" /\ pc'[r] = "idle" /\ ForeignTarget(r))
         => /\ sent'.status = 404
            /\ Expense' = Expense
            /\ \A i \in 1..Len(Expense) :
                 Expense[i]._id = req[r].body.id
                   => \A q \in FindExpenses(Expense[i].userId)' :
                        \E k \in 1..Len(q) : q[k] = Expense[i]]_vars

\* A foreign delete was just refused.
C3_Witness ==
  /\ sent # None
  /\ sent.req.route = "expenses/delete"
  /\ sent.status = 404
  /\ \E i \in 1..Len(Expense) :
       Expense[i]._id = sent.req.body.id /\ Expense[i].userId # sent.req.token.userId

\* The token is absent, does not verify, is expired, or names no account.
BadToken(tok) == tok.kind # "valid" \/ ~Has(User, tok.userId)

\* C4: a request to a protected route with a bad token is answered 401 with
\* an error message and nothing else, and changes no account and no ledger.
C4_BadTokenIs401 ==
  [][(sent' # None /\ sent'.req.route # "signup" /\ BadToken(sent'.req.token))
       => /\ sent'.status = 401
          /\ DOMAIN sent'.json = {"error"}
          /\ User' = User
          /\ Expense' = Expense]_vars

\* A clear with an expired token of an account that has a budget and an
\* expense was just refused.
C4_Witness ==
  /\ sent # None
  /\ sent.req.route = "expenses/clear"
  /\ sent.req.token.kind = "expired"
  /\ sent.status = 401
  /\ Has(User, sent.req.token.userId)
  /\ Owned(sent.req.token.userId) # <<>>
  /\ Budget(sent.req.token.userId) = Num(5)

\* C5: every stored expense has a strictly positive numeric amount and all
\* of its fields.
C5_AmountsPositive ==
  \A i \in 1..Len(Expense) :
    /\ Expense[i].amount.t = "num"
    /\ Expense[i].amount.n > 0
    /\ Expense[i].date # <<>> /\ Expense[i].item # <<>>
    /\ Expense[i].quantity # <<>> /\ Expense[i].mode # <<>>


\* The amount is one a budget route has to refuse: absent, null, not the
\* text of a number, or below the least amount the route takes.
Refusable(amount, least) ==
  \/ amount.t \notin {"num", "str"}
  \/ ToNumber(amount) = NaN
  \/ ToNumber(amount).n < least

\* C6: setBudget with an amount that is missing, not a number or negative is
\* answered 400; with an amount >= 0 the stored and the returned total are
\* that amount; the stored total is never negative.
C6_SetBudgetValidated ==
  /\ (sent # None /\ sent.req.route = "budget/set")
       => IF Refusable(sent.req.body.amount, 0)
            THEN sent.status = 400
            ELSE /\ sent.status = 200
                 /\ sent.json.totalBudget = ToNumber(sent.req.body.amount)
                 /\ Budget(sent.req.token.userId) = ToNumber(sent.req.body.amount)
  /\ \A i \in 1..Len(User) : User[i].totalBudget.t = "num" => User[i].totalBudget.n >= 0

\* C7: addToBudget with an amount that is missing, not a number or <= 0 is
\* answered 400 and changes no total; with an amount > 0 the stored and the
\* returned total are the total stored before plus the amount.
C7_AddToBudgetSums ==
  [][/\ (sent' # None /\ sent'.req.route = "budget/add"
           /\ Refusable(sent'.req.body.amount, 1))
          => (sent'.status = 400 /\ User' = User)
     /\ \A r \in ReqIds :
          (/\ pc[r] = "save" /\ pc'[r] = "idle"
           /\ req[r].route = "budget/add"
           /\ Budget(reqUser[r]._id).t = "num")
            => /\ sent'.status = 200
               /\ Find(User', reqUser[r]._id).totalBudget =
                    Num(Budget(reqUser[r]._id).n + ToNumber(req[r].body.amount).n)
               /\ sent'.json.totalBudget = Find(User', reqUser[r]._id).totalBudget]_vars

\* The calendar day a date text names, as the number yyyymmdd.
DateValue(d) == LET IsDigit(c) == c \in DOMAIN DigitVal IN DigitsValue(SelectSeq(d, IsDigit))

\* C8: a list answers with exactly the expenses the account owns, each once,
\* ordered by date ascending and, for equal dates, by creation time.
C8_ListOwnedSorted ==
  (sent # None /\ sent.req.route = "expenses/list" /\ sent.status = 200)
    => LET q == sent.json
           uid == sent.req.token.userId
       IN /\ \A k \in 1..Len(q) : q[k].userId = uid
          /\ \A k \in 1..Len(q) : \E i \in 1..Len(Expense) : Expense[i] = q[k]
          /\ \A i \in 1..Len(Expense) :
               Expense[i].userId = uid => \E k \in 1..Len(q) : q[k] = Expense[i]
          /\ \A j, k \in 1..Len(q) : j # k => q[j]._id # q[k]._id
          /\ \A j, k \in 1..Len(q) :
               j < k => \/ DateValue(q[j].date) < DateValue(q[k].date)
                        \/ /\ q[j].date = q[k].date
                           /\ q[j].createdAt <= q[k].createdAt

\* A list was answered in which the expense dated 2024-01-02, added after
\* the one dated 2024-01-10, comes first.
C8_Witness ==
  /\ sent # None
  /\ sent.req.route = "expenses/list"
  /\ Len(sent.json) = 2
  /\ sent.json[1].date = Jan02 /\ sent.json[2].date = Jan10
  /\ sent.json[1]._id > sent.json[2]._id
  /\ sent.json[1].createdAt > sent.json[2].createdAt


(***************************************************************************)
(* The page (script.js).  A handler runs up to its await in one step and   *)
(* from the response to its end in another; the network answers a call     *)
(* with what the server can answer it, or not at all.                      *)
(***************************************************************************)
\* new Date(text) for a yyyy-mm-dd text: UTC midnight of the day, counted in
\* days since 1970-01-01 (getTime() is 86400000 times this).
NewDate(d) ==
  LET y0 == DigitsValue(SubSeq(d, 1, 4))
      m == DigitsValue(SubSeq(d, 6, 7))
      dd == DigitsValue(SubSeq(d, 9, 10))
      y == IF m <= 2 THEN y0 - 1 ELSE y0
      era == y \div 400
      yoe == y - era * 400
      doy == (153 * (IF m > 2 THEN m - 3 ELSE m + 9) + 2) \div 5 + dd - 1
      doe == yoe * 365 + yoe \div 4 - yoe \div 100 + doy
  IN era * 146097 + doe - 719468

\* Array.prototype.sort with (a, b) => new Date(a.date) - new Date(b.date):
\* a stable sort, an entry goes behind those its date is not before.
RECURSIVE SortByDate(_)
SortByDate(list) ==
  IF list = <<>> THEN <<>>
  ELSE LET init == SortByDate(SubSeq(list, 1, Len(list) - 1))
           e == list[Len(list)]
           Keeps(x) == NewDate(x.date) - NewDate(e.date) <= 0
           Moves(x) == ~Keeps(x)
       IN SelectSeq(init, Keeps) \o <<e>> \o SelectSeq(init, Moves)

\* The running balances with a start other than the budget.
RECURSIVE RunningBalancesFromZero(_, _)
RunningBalancesFromZero(budget, list) ==
  IF list = <<>> THEN <<>>
  ELSE LET init == SubSeq(list, 1, Len(list) - 1)
           before == RunningBalancesFromZero(budget, init)
           start == IF init = <<>> THEN 0 ELSE before[Len(before)]
       IN Append(before, start - parseFloat(list[Len(list)].amount).n)

\* runningBalance after each entry of the forEach of updateTable.
RECURSIVE RunningBalances(_, _)
RunningBalances(budget, list) ==
  IF list = <<>> THEN <<>>
  ELSE LET init == SubSeq(list, 1, Len(list) - 1)
           before == RunningBalances(budget, init)
           start == IF init = <<>> THEN budget.n ELSE before[Len(before)]
       IN Append(before, start - parseFloat(list[Len(list)].amount).n)

\* expenses.reduce((sum, exp) => sum + parseFloat(exp.amount), 0)
RECURSIVE TotalSpent(_)
TotalSpent(list) ==
  IF list = <<>> THEN 0
  ELSE TotalSpent(SubSeq(list, 1, Len(list) - 1)) + parseFloat(list[Len(list)].amount).n

\* The rows updateTable writes for the sorted list: none for an empty list.
updateTable(budget, sorted) ==
  [i \in 1..Len(sorted) |->
     [id |-> sorted[i]._id,
      amount |-> parseFloat(sorted[i].amount),
      runningBalance |-> Num(RunningBalances(budget, sorted)[i]),
      negative |-> RunningBalances(budget, sorted)[i] < 0]]

\* updateDisplay: the summary elements (as the numbers toFixed(2) prints)
\* and the table.
updateDisplay(budget, list) ==
  [budgetEl |-> budget,
   spentEl |-> Num(TotalSpent(list)),
   balanceEl |-> [value |-> Num(budget.n - TotalSpent(list)),
                  negative |-> budget.n - TotalSpent(list) < 0],
   tbody |-> updateTable(budget, SortByDate(list))]

\* The mirror and the page after updateDisplay() with this budget and list:
\* the sort of updateTable is in place.
Render(budget, list) ==
  /\ totalBudget' = budget
  /\ expenses' = SortByDate(list)
  /\ document' = updateDisplay(budget, list)

\* res && res.ok
Ok(res) == res # Null /\ res.status \in 200..299

\* What the API functions return for what apiRequest resolved to.
fetchExpenses(res) == IF Ok(res) THEN res.json ELSE <<>>

fetchUserProfile(res) == IF Ok(res) THEN res.json.user ELSE Null

addExpense(res) == IF Ok(res) THEN res.json ELSE Null

deleteExpense(res) == Ok(res)

\* clearAllData that takes any response for a success.
clearAllDataAnyStatus(res) == res # Null

clearAllData(res) == Ok(res)

setBudget(res) == IF Ok(res) THEN res.json.totalBudget ELSE Null

addMoneyToBudget(res) == IF Ok(res) THEN res.json.totalBudget ELSE Null

\* fetch rejected: no response.
NetworkError == [status |-> 0, json |-> None]

\* What apiRequest resolves to: null after a 401 or a rejected fetch.
apiRequest(resp) == IF resp.status \in {0, 401} THEN Null ELSE resp

\* The steps of the page leave the store and the connections alone.
ServerIdle == UNCHANGED <<User, Expense, now, pc, req, reqUser, pending>>

\* The page is shown and loaded: it has not navigated to login.html.
OnPage == location = "index.html" /\ readyState = "complete"

\* A handler calls fetch and awaits.
Fetch(route, body) ==
  /\ OnPage
  /\ Len(call) < MaxCalls
  /\ call' = Append(call, Request(route, localStorage.token, body))
  /\ sent' = None
  /\ ServerIdle
  /\ UNCHANGED <<nextEid, totalBudget, expenses, localStorage, location, readyState, document>>

\* A handler returns before any call.
Return ==
  /\ OnPage
  /\ sent' = None
  /\ ServerIdle
  /\ UNCHANGED <<nextEid, clientVars>>

\* The calls in flight without the i-th.
Others(i) == SubSeq(call, 1, i - 1) \o SubSeq(call, i + 1, Len(call))

\* logout(): 401 from any call.
logout ==
  /\ localStorage' = [token |-> Null, user |-> Null]
  /\ location' = "login.html"
  /\ call' = <<>>
  /\ UNCHANGED <<nextEid, totalBudget, expenses, readyState, document>>

\* The logout button.
ClickLogout ==
  /\ OnPage
  /\ sent' = None
  /\ ServerIdle
  /\ logout

\* Totals the account may hold on the server when money is added.
StoredTotals == {1000}

\* Lists the server may hold for the account, in the order it returns them.
StoredLists(uid) ==
  LET E(k, d, a) == [NewExpense(uid, FullExpense(d, Num(a))) EXCEPT !._id = nextEid + k]
  IN {<<>>, <<E(0, Jan10, 2)>>, <<E(0, Jan02, 50), E(1, Jan02, 2)>>}

\* The 2xx responses of the server to a call.
Success(c) ==
  CASE c.route = "me" ->
         {[status |-> 200,
           json |-> [user |-> [id |-> c.token.userId, username |-> Bob,
                               email |-> <<"a", "@", "x">>, totalBudget |-> b]]] :
            b \in {Null, Num(1000)}}
    [] c.route = "expenses/list" ->
         {[status |-> 200, json |-> q] : q \in StoredLists(c.token.userId)}
    [] c.route = "expenses/add" ->
         {[status |-> 201, json |-> NewExpense(c.token.userId, c.body)]}
    [] c.route = "expenses/delete" ->
         {[status |-> 200, json |-> [message |-> "Expense deleted."]]}
    [] c.route = "expenses/clear" ->
         {[status |-> 200, json |-> [message |-> "All data cleared."]]}
    [] c.route = "budget/set" ->
         {[status |-> 200,
           json |-> [message |-> "Budget updated.", totalBudget |-> c.body.amount]]}
    [] c.route = "budget/add" ->
         {[status |-> 200,
           json |-> [message |-> "Money added to budget.",
                     totalBudget |-> Num(t + c.body.amount.n)]] : t \in StoredTotals}

\* What fetch can settle with other than a success: a rejection, a 401,
\* another refusal of the server.
Failures ==
  {NetworkError}
    \cup {[status |-> 401, json |-> ErrorBody("Invalid or expired token.")]}
    \cup {[status |-> st, json |-> ErrorBody("Server error.")] : st \in {400, 404, 500}}

\* The i-th call in flight is one to route and settles with resp: the
\* response is recorded.
Settle(i, route, resp) ==
  /\ OnPage
  /\ i \in 1..Len(call)
  /\ call[i].route = route
  /\ IF resp.status \in 200..299 THEN resp \in Success(call[i]) ELSE resp \in Failures
  /\ resp.status \in 200..299 =>
       nextEid + (IF route = "expenses/list" THEN Len(resp.json)
                  ELSE IF route = "expenses/add" THEN 1 ELSE 0) <= MaxExpenses + 1
  /\ sent' = [req |-> call[i], status |-> resp.status, json |-> resp.json]
  /\ ServerIdle

\* The handler ends without a change of the mirror.
Unchanged(i) ==
  /\ call' = Others(i)
  /\ UNCHANGED <<nextEid, totalBudget, expenses, localStorage, location, readyState, document>>

\* DOMContentLoaded: requireAuth(), then loadData() up to fetchUserProfile.
DOMContentLoaded ==
  /\ readyState = "loading"
  /\ readyState' = "complete"
  /\ sent' = None
  /\ ServerIdle
  /\ IF localStorage.token = Null
       THEN /\ location' = "login.html"
            /\ UNCHANGED call
       ELSE /\ call' = Append(call, Request("me", localStorage.token, None))
            /\ UNCHANGED location
  /\ UNCHANGED <<nextEid, totalBudget, expenses, localStorage, document>>

\* loadData after fetchUserProfile, up to fetchExpenses.
LoadProfile(i, resp) ==
  /\ Settle(i, "me", resp)
  /\ IF resp.status = 401
       THEN logout
       ELSE LET res == apiRequest(resp) IN
            /\ IF fetchUserProfile(res) # Null
                 THEN /\ totalBudget' = (IF Falsy(fetchUserProfile(res).totalBudget) THEN Num(0)
                                         ELSE fetchUserProfile(res).totalBudget)
                      /\ localStorage' = [localStorage EXCEPT !.user = fetchUserProfile(res)]
                 ELSE UNCHANGED <<totalBudget, localStorage>>
            /\ call' = Append(Others(i), Request("expenses/list", localStorage.token, None))
            /\ UNCHANGED <<nextEid, expenses, location, readyState, document>>

\* loadData after fetchExpenses: the list, or [] when the call failed.
LoadExpenses(i, resp) ==
  /\ Settle(i, "expenses/list", resp)
  /\ IF resp.status = 401
       THEN logout
       ELSE LET res == apiRequest(resp) IN
            /\ Render(totalBudget, fetchExpenses(res))
            /\ nextEid' = nextEid + Len(fetchExpenses(res))
            /\ call' = Others(i)
            /\ UNCHANGED <<localStorage, location, readyState>>

\* The form is submitted: the fields are checked, addExpense is called.
SubmitExpense(form) ==
  IF Falsy(form.date) \/ Falsy(form.item) \/ Falsy(form.quantity)
       \/ Falsy(form.amount) \/ Falsy(form.mode)
    THEN Return
    ELSE Fetch("expenses/add", [form EXCEPT !.amount = parseFloat(form.amount)])

\* addExpense returned: the new expense is pushed, or nothing happens.
ExpenseAdded(i, resp) ==
  /\ Settle(i, "expenses/add", resp)
  /\ IF resp.status = 401
       THEN logout
       ELSE LET res == apiRequest(resp) IN
            IF addExpense(res) # Null
              THEN /\ Render(totalBudget, Append(expenses, addExpense(res)))
                   /\ nextEid' = nextEid + 1
                   /\ call' = Others(i)
                   /\ UNCHANGED <<localStorage, location, readyState>>
              ELSE Unchanged(i)

\* A delete button of the table is clicked.
ClickDelete(id) == Fetch("expenses/delete", [id |-> id])

\* deleteExpense returned.
ExpenseDeleted(i, resp) ==
  /\ Settle(i, "expenses/delete", resp)
  /\ IF resp.status = 401
       THEN logout
       ELSE LET res == apiRequest(resp) IN
            IF deleteExpense(res)
              THEN LET Other(exp) == exp._id # call[i].body.id
                   IN /\ Render(totalBudget, SelectSeq(expenses, Other))
                      /\ call' = Others(i)
                      /\ UNCHANGED <<nextEid, localStorage, location, readyState>>
              ELSE Unchanged(i)

\* The set-budget button: prompt, check, setBudget.
ClickSetBudget(budget) ==
  IF budget # Null /\ ~isNaN(parseFloat(budget)) /\ LessOrEqual(Num(0), parseFloat(budget))
    THEN Fetch("budget/set", [amount |-> parseFloat(budget)])
    ELSE Return

\* The add-money button: prompt, check, addMoneyToBudget.
ClickAddMoney(addAmount) ==
  IF addAmount # Null /\ ~isNaN(parseFloat(addAmount)) /\ LessThan(Num(0), parseFloat(addAmount))
    THEN Fetch("budget/add", [amount |-> parseFloat(addAmount)])
    ELSE Return

\* A budget handler after its call returned newBudget.
BudgetReturned(i, newBudget) ==
  IF newBudget # Null
    THEN /\ Render(newBudget, expenses)
         /\ call' = Others(i)
         /\ UNCHANGED <<nextEid, localStorage, location, readyState>>
    ELSE Unchanged(i)

\* setBudget returned.
BudgetWasSet(i, resp) ==
  /\ Settle(i, "budget/set", resp)
  /\ IF resp.status = 401
       THEN logout
       ELSE BudgetReturned(i, setBudget(apiRequest(resp)))

\* addMoneyToBudget returned.
MoneyWasAdded(i, resp) ==
  /\ Settle(i, "budget/add", resp)
  /\ IF resp.status = 401
       THEN logout
       ELSE BudgetReturned(i, addMoneyToBudget(apiRequest(resp)))

\* The clear button: confirm, clearAllData.
ClickClear(confirmed) ==
  IF confirmed THEN Fetch("expenses/clear", None) ELSE Return

\* clearAllData returned.
DataCleared(i, resp) ==
  /\ Settle(i, "expenses/clear", resp)
  /\ IF resp.status = 401
       THEN logout
       ELSE LET res == apiRequest(resp) IN
            IF clearAllData(res)
              THEN /\ Render(Num(0), <<>>)
                   /\ call' = Others(i)
                   /\ UNCHANGED <<nextEid, localStorage, location, readyState>>
              ELSE Unchanged(i)

\* What the form may hold on submit.
Forms ==
  {FullExpense(Jan02, Str(<<"5", "0">>)), FullExpense(Jan10, Str(<<"2">>)),
   [FullExpense(Jan02, Str(<<"2">>)) EXCEPT !.item = Str(<<>>)]}

\* What the user may answer a prompt with: cancel, or a text.
Prompts ==
  {Null, Str(<<"a", "b", "c">>), Str(<<"-", "1">>), Str(<<"5">>),
   Str(<<"1", "0", "0", "0">>)}

\* What the i-th call in flight can settle with: successes, or failures.
Answers(i, ok) == IF ok THEN Success(call[i]) ELSE Failures

NextClient ==
  \/ DOMContentLoaded
  \/ \E i \in 1..Len(call), ok \in BOOLEAN : \E resp \in Answers(i, ok) : LoadProfile(i, resp)
  \/ \E i \in 1..Len(call), ok \in BOOLEAN : \E resp \in Answers(i, ok) : LoadExpenses(i, resp)
  \/ \E form \in Forms : SubmitExpense(form)
  \/ \E i \in 1..Len(call), ok \in BOOLEAN : \E resp \in Answers(i, ok) : ExpenseAdded(i, resp)
  \/ \E k \in 1..Len(document.tbody) : ClickDelete(document.tbody[k].id)
  \/ \E i \in 1..Len(call), ok \in BOOLEAN : \E resp \in Answers(i, ok) : ExpenseDeleted(i, resp)
  \/ \E budget \in Prompts \ {Str(<<"5">>)} : ClickSetBudget(budget)
  \/ \E addAmount \in Prompts \ {Str(<<"1", "0", "0", "0">>)} : ClickAddMoney(addAmount)
  \/ \E i \in 1..Len(call), ok \in BOOLEAN : \E resp \in Answers(i, ok) : BudgetWasSet(i, resp)
  \/ \E i \in 1..Len(call), ok \in BOOLEAN : \E resp \in Answers(i, ok) : MoneyWasAdded(i, resp)
  \/ \E confirmed \in BOOLEAN : ClickClear(confirmed)
  \/ \E i \in 1..Len(call), ok \in BOOLEAN : \E resp \in Answers(i, ok) : DataCleared(i, resp)
  \/ ClickLogout

SpecClient == Init /\ [][NextClient]_vars


\* The step ends in updateDisplay(): a load that came back, or a write that
\* succeeded.
Renders ==
  /\ sent' # None
  /\ location' = "index.html"
  /\ \/ sent'.req.route = "expenses/list"
     \/ sent'.status \in 200..299 /\ sent'.req.route # "me"

\* The table and the summary show the mirror: one row per entry, in date
\* order, each with the budget less the amounts down to it, flagged when
\* that is below 0, the last one equal to the summary balance.
Shown ==
  LET rows == document.tbody
      n == Len(rows)
      Sum[k \in 0..n] == IF k = 0 THEN 0 ELSE Sum[k - 1] + rows[k].amount.n
  IN /\ n = Len(expenses)
     /\ \A i \in 1..n : rows[i].id = expenses[i]._id /\ rows[i].amount = expenses[i].amount
     /\ \A i, j \in 1..n : i < j => DateValue(expenses[i].date) <= DateValue(expenses[j].date)
     /\ \A i \in 1..n : rows[i].runningBalance = Num(totalBudget.n - Sum[i])
     /\ \A i \in 1..n : rows[i].negative <=> rows[i].runningBalance.n < 0
     /\ n > 0 => rows[n].runningBalance = document.balanceEl.value
     /\ document.balanceEl.value = Num(totalBudget.n - Sum[n])

\* The list the step sorts: the one loaded, the mirror with the new expense
\* at its end, or the mirror.
Unsorted ==
  IF sent'.req.route = "expenses/list" THEN (IF sent'.status = 200 THEN sent'.json ELSE <<>>)
  ELSE IF sent'.req.route = "expenses/add" THEN Append(expenses, sent'.json)
  ELSE expenses

\* Entries of one date are in the mirror in the order the list had them in.
KeepsOrder ==
  \A i, j \in 1..Len(Unsorted) :
    (i < j /\ Unsorted[i].date = Unsorted[j].date)
      => \A k, l \in 1..Len(expenses') :
           (expenses'[k] = Unsorted[i] /\ expenses'[l] = Unsorted[j]) => k < l

\* C9: when the client renders, the rows are in date-ascending order with
\* equal dates in their order in the mirror, the i-th running balance is the
\* mirrored budget minus the amounts of rows 1..i, a row is flagged negative
\* exactly when that is below 0, and the last running balance is the summary
\* balance.
C9_RunningBalance == [][Renders => (Shown' /\ KeepsOrder)]_vars

\* Budget 1000; the expense of 50 dated 2024-01-02, added after the one of 2
\* dated 2024-01-10, is shown first with 950, the other with 948.
C9_Witness ==
  /\ sent # None /\ sent.req.route = "expenses/add" /\ sent.status = 201
  /\ totalBudget = Num(1000)
  /\ Len(document.tbody) = 2
  /\ document.tbody[1].id > document.tbody[2].id
  /\ document.tbody[1].runningBalance = Num(950)
  /\ document.tbody[2].runningBalance = Num(948)

WriteRoutes ==
  {"expenses/add", "expenses/delete", "expenses/clear", "budget/set", "budget/add"}

\* C10: the mirror changes only in a step in which a response arrived, and
\* for the response to a write action only when its status is a success: a
\* write action that is answered by no response, by a non-2xx status or by
\* 401 leaves totalBudget and expenses as they were.
C10_MirrorAfterSuccess ==
  [][(totalBudget' # totalBudget \/ expenses' # expenses)
       => /\ sent' # None
          /\ sent'.req.route \in WriteRoutes => sent'.status \in 200..299]_vars

\* A clear was answered 500 and the mirror still holds a budget and a row.
C10_Witness ==
  /\ sent # None /\ sent.req.route = "expenses/clear" /\ sent.status = 500
  /\ totalBudget = Num(1000)
  /\ Len(expenses) = 1

(***************************************************************************)
(* One account and additions to its budget alone, on two connections: no   *)
(* setBudget and no clear.                                                 *)
(***************************************************************************)
NextAdds ==
  \/ \E r \in ReqIds, b \in {CHOOSE a \in Accounts : a.username = Str(Bob)} : Signup(r, b)
  \/ \E r \in ReqIds : SignupSave(r)
  \/ \E r \in ReqIds, tok \in ValidTokens : Me(r, tok)
  \/ \E r \in ReqIds, tok \in ValidTokens, b \in {[amount |-> Num(1)], [amount |-> Num(5)]} :
        BudgetAdd(r, tok, b)
  \/ \E r \in ReqIds : BudgetSave(r)

SpecAdds == Init /\ [][NextAdds]_vars

\* C11: no successful addition is lost under overlap: with additions alone
\* on the account, every addition that is answered 200 raises the stored
\* total by its amount, so the final total is the initial total plus the sum
\* of the amounts of the successful additions.
C11_NoLostAddition ==
  [][\A r \in ReqIds :
       (/\ pc[r] = "save" /\ pc'[r] = "idle"
        /\ req[r].route = "budget/add"
        /\ sent'.status = 200)
         => Find(User', reqUser[r]._id).totalBudget.n =
              Budget(reqUser[r]._id).n + req[r].body.amount.n]_vars

====
